---- MODULE Spec2Model ----
(***************************************************************************)
(* Model of pytaf: the TAF envelope parser (lib/pytaf/taf.py) and the      *)
(* timeline builder / renderer (lib/pytaf/tafdecoder.py).                  *)
(*                                                                         *)
(* Python strings are sequences of one-character strings, dicts are        *)
(* functions from key strings to values ({} is the empty function <<>>),   *)
(* datetimes are records [year, month, day, hour, minute] ordered by       *)
(* Minutes(_), and a raised exception is the name of its class.            *)
(***************************************************************************)
EXTENDS Integers, Sequences, FiniteSets, TLC

\* ---------------------------------------------------------------------
\* Bounds of the model
\* ---------------------------------------------------------------------
\* largest number of weather groups of a report (the MAIN chunk included)
MaxGroups == 3
\* largest number of decode_taf calls followed on one TAF object
MaxRenders == 1
\* the numbers given to _get_ordinal_suffix are 0..MaxDate
MaxDate == 120

\* ---------------------------------------------------------------------
\* Notation
\* ---------------------------------------------------------------------
\* the element of a one-element set: Only({e : x \in {v}}) is e with x
\* standing for the value of v
Only(S) == CHOOSE x \in S : TRUE

\* the function f over 1..n as a tuple
Tuple(f) == f \o <<>>

\* the least number of a set of positions, 0 for the empty set
Least(S) ==
    Only({IF T = {} THEN 0 ELSE CHOOSE i \in T : \A j \in T : i <= j
          : T \in {S}})

\* ---------------------------------------------------------------------
\* Python values
\* ---------------------------------------------------------------------
\* None where a datetime, a dict or a tuple is expected
None == [py |-> "None"]
\* None in a dict whose other values are str (PROB/TEMPO/BECMG 'probability')
NoneStr == <<"None">>
\* a raised exception, by class
Raised(cls) == [raised |-> cls]
ValueError == Raised("ValueError")
TypeError == Raised("TypeError")
KeyError == Raised("KeyError")
IsRaised(x) == DOMAIN x = {"raised"}

\* {}
EmptyDict == [k \in {} |-> 0]
\* the values of the dicts TafGroup builds: int, str or None
PyInt(n) == [int |-> n]
PyStr(s) == [str |-> s]

DigitChars == {"0", "1", "2", "3", "4", "5", "6", "7", "8", "9"}

DigitValue(c) ==
    CASE c = "0" -> 0 [] c = "1" -> 1 [] c = "2" -> 2 [] c = "3" -> 3
      [] c = "4" -> 4 [] c = "5" -> 5 [] c = "6" -> 6 [] c = "7" -> 7
      [] c = "8" -> 8 [] c = "9" -> 9

IsDigits(s) == \A i \in 1..Len(s) : s[i] \in DigitChars

RECURSIVE DigitsValue(_)
DigitsValue(s) ==
    IF Len(s) = 0 THEN 0
    ELSE 10 * DigitsValue(SubSeq(s, 1, Len(s) - 1)) + DigitValue(s[Len(s)])

\* int(s) of a str raises ValueError unless s is a non-empty run of digits
\* ('' and '01st' raise)
IntRaises(s) == ~(Len(s) > 0 /\ IsDigits(s))
int(s) == DigitsValue(s)

\* dict.get(key, default)
Get(d, key, default) == IF key \in DOMAIN d THEN d[key] ELSE default

\* ---------------------------------------------------------------------
\* datetime
\* ---------------------------------------------------------------------
IsLeap(year) ==
    (year % 4 = 0) /\ ((year % 100 # 0) \/ (year % 400 = 0))

\* calendar.monthrange(year, month)[1]
monthrange(year, month) ==
    CASE month \in {1, 3, 5, 7, 8, 10, 12} -> 31
      [] month \in {4, 6, 9, 11} -> 30
      [] OTHER -> IF IsLeap(year) THEN 29 ELSE 28

\* datetime(year, month, day, hours, minutes): ValueError for a field out
\* of range
datetime(year, month, day, hours, minutes) ==
    IF /\ month \in 1..12
       /\ day >= 1 /\ day <= monthrange(year, month)
       /\ hours \in 0..23
       /\ minutes \in 0..59
    THEN [year |-> year, month |-> month, day |-> day,
          hour |-> hours, minute |-> minutes]
    ELSE ValueError

IsDatetime(x) == "year" \in DOMAIN x

RECURSIVE DaysBeforeMonth(_, _)
DaysBeforeMonth(year, month) ==
    IF month = 1 THEN 0
    ELSE DaysBeforeMonth(year, month - 1) + monthrange(year, month - 1)

\* the order of datetimes: minutes since 0001-01-01 00:00 (toordinal)
Minutes(dt) ==
    LET y == dt.year - 1
        ordinal == 365 * y + (y \div 4) - (y \div 100) + (y \div 400)
                   + DaysBeforeMonth(dt.year, dt.month) + dt.day
    IN  (ordinal * 24 + dt.hour) * 60 + dt.minute

\* ---------------------------------------------------------------------
\* Decoder: timestamps
\* ---------------------------------------------------------------------
\* prefix + 'date', prefix + 'hours', prefix + 'minutes'
Key(prefix, part) ==
    CASE prefix = "origin_" ->
           (CASE part = "date" -> "origin_date"
              [] part = "hours" -> "origin_hours"
              [] part = "minutes" -> "origin_minutes")
      [] prefix = "valid_from_" ->
           (CASE part = "date" -> "valid_from_date"
              [] part = "hours" -> "valid_from_hours"
              [] part = "minutes" -> "valid_from_minutes")
      [] prefix = "valid_till_" ->
           (CASE part = "date" -> "valid_till_date"
              [] part = "hours" -> "valid_till_hours"
              [] part = "minutes" -> "valid_till_minutes")
      [] prefix = "from_" ->
           (CASE part = "date" -> "from_date"
              [] part = "hours" -> "from_hours"
              [] part = "minutes" -> "from_minutes")
      [] prefix = "till_" ->
           (CASE part = "date" -> "till_date"
              [] part = "hours" -> "till_hours"
              [] part = "minutes" -> "till_minutes")

\* Decoder._extract_time: the (day, hour, minute) of the first prefix whose
\* date is a non-empty str, None when there is none
RECURSIVE _extract_time(_, _)
_extract_time(header, prefixes) ==
    IF DOMAIN header = {} THEN ValueError
    ELSE IF Len(prefixes) = 0 THEN None
    ELSE Only({
        IF Len(day) > 0
        THEN IF IntRaises(day) THEN ValueError
             ELSE IF Key(Head(prefixes), "hours") \notin DOMAIN header
                  THEN TypeError
             ELSE IF IntRaises(header[Key(Head(prefixes), "hours")])
                  THEN ValueError
             ELSE IF /\ Key(Head(prefixes), "minutes") \in DOMAIN header
                     /\ IntRaises(header[Key(Head(prefixes), "minutes")])
                  THEN ValueError
             ELSE [day |-> int(day),
                   hour |-> int(header[Key(Head(prefixes), "hours")]),
                   minute |->
                       IF Key(Head(prefixes), "minutes") \in DOMAIN header
                       THEN int(header[Key(Head(prefixes), "minutes")])
                       ELSE 0]
        ELSE _extract_time(header, Tail(prefixes))
      : day \in {Get(header, Key(Head(prefixes), "date"), <<>>)}})

\* Decoder._normalize_date: day 31 of a 30-day month becomes day 1 of the
\* month after it; (month, day)
_normalize_date(year, month, day) ==
    IF day = 31 /\ monthrange(year, month) = 30
    THEN [month |-> month + 1, day |-> 1]
    ELSE [month |-> month, day |-> day]

\* what _normalize_date writes to the log or to stdout: it has no such call
_normalize_date_warnings(year, month, day) == {}

\* _decode_timestamp with the year left alone when the month passes December
_decode_timestamp_same_year(issued_timestamp, header, prefixes) ==
    Only({
      IF res = None \/ IsRaised(res) THEN res
      ELSE
        LET day == res.day
            hours == IF res.hour = 24 THEN 23 ELSE res.hour
            minutes == IF res.hour = 24 THEN 59 ELSE res.minute
            month0 == IF issued_timestamp.day > day
                      THEN issued_timestamp.month + 1
                      ELSE issued_timestamp.month
            month1 == IF month0 > 12 THEN 1 ELSE month0
            year == issued_timestamp.year
        IN  Only({datetime(year, md.month, md.day, hours, minutes)
                  : md \in {_normalize_date(year, month1, day)}})
      : res \in {_extract_time(header, prefixes)}})

\* Decoder._decode_timestamp, relative to self.issued_timestamp
_decode_timestamp(issued_timestamp, header, prefixes) ==
    Only({
      IF res = None \/ IsRaised(res) THEN res
      ELSE
        LET day == res.day
            hours == IF res.hour = 24 THEN 23 ELSE res.hour
            minutes == IF res.hour = 24 THEN 59 ELSE res.minute
            month0 == IF issued_timestamp.day > day
                      THEN issued_timestamp.month + 1
                      ELSE issued_timestamp.month
            month1 == IF month0 > 12 THEN 1 ELSE month0
            year == IF month0 > 12 THEN issued_timestamp.year + 1
                    ELSE issued_timestamp.year
        IN  Only({datetime(year, md.month, md.day, hours, minutes)
                  : md \in {_normalize_date(year, month1, day)}})
      : res \in {_extract_time(header, prefixes)}})

\* Decoder._decode_groups, lines 105-113: self.issued_timestamp
IssuedTimestamp(taf_header, taf_timestamp) ==
    Only({
      IF IsRaised(res) THEN res
      ELSE IF res = None THEN TypeError
      ELSE Only({datetime(taf_timestamp.year, md.month, md.day,
                          res.hour, res.minute)
                 : md \in {_normalize_date(taf_timestamp.year,
                                            taf_timestamp.month, res.day)}})
      : res \in {_extract_time(taf_header, <<"origin_">>)}})

\* Decoder._has_gap: latertime - earliertime > timedelta(minutes=5)
_has_gap(earliertime, latertime) ==
    Minutes(latertime) - Minutes(earliertime) > 5

\* ---------------------------------------------------------------------
\* TAF: the envelope parser
\* ---------------------------------------------------------------------
S_MAIN == <<"M", "A", "I", "N">>
S_MAIN_EXT == <<"M", "A", "I", "N", "-", "E", "X", "T">>
S_FM == <<"F", "M">>
S_PROB == <<"P", "R", "O", "B">>
S_TEMPO == <<"T", "E", "M", "P", "O">>
S_BECMG == <<"B", "E", "C", "M", "G">>

\* the str s continues with lit at position i
MatchAt(s, i, lit) ==
    /\ i >= 1
    /\ i + Len(lit) - 1 <= Len(s)
    /\ SubSeq(s, i, i + Len(lit) - 1) = lit

\* str.startswith
StartsWith(s, lit) == MatchAt(s, 1, lit)

\* \d{n} at position i
DigitsAt(s, i, n) ==
    /\ i >= 1
    /\ i + n - 1 <= Len(s)
    /\ IsDigits(SubSeq(s, i, i + n - 1))

\* the first position >= i that holds no whitespace
RECURSIVE SkipSpace(_, _)
SkipSpace(s, i) ==
    IF i <= Len(s) /\ s[i] = " " THEN SkipSpace(s, i + 1) ELSE i

\* fm_pattern at position i: FM \d{2} \d{2} \d{2}
FmAt(s, i) == MatchAt(s, i, S_FM) /\ DigitsAt(s, i + 2, 6)

\* the end of the text the type group of ptb_pattern takes at position i
\* (PROB\d{1,2}\s*(TEMPO)?, TEMPO or BECMG), 0 when it does not match there
PtbTypeEnd(s, i) ==
    IF MatchAt(s, i, S_PROB) /\ DigitsAt(s, i + 4, 1)
    THEN Only({
           Only({IF MatchAt(s, q, S_TEMPO) THEN q + 4
                 ELSE IF q > p THEN q - 2
                 ELSE 0
                 : q \in {SkipSpace(s, p)}})
           : p \in {IF DigitsAt(s, i + 4, 2) THEN i + 6 ELSE i + 5}})
    ELSE IF MatchAt(s, i, S_TEMPO) \/ MatchAt(s, i, S_BECMG) THEN i + 4
    ELSE 0

\* ptb_pattern at position i: the type, \s+, \d{2}\d{2} / \d{2}\d{2}
PtbAt(s, i) ==
    \E e \in {PtbTypeEnd(s, i)} :
        /\ e > 0
        /\ \E d \in {SkipSpace(s, e + 1)} :
              /\ d > e + 1
              /\ DigitsAt(s, d, 4)
              /\ MatchAt(s, d + 4, <<"/">>)
              /\ DigitsAt(s, d + 5, 4)

\* re.search: the leftmost position where the pattern matches, 0 for none
FmSearch(s) == Least({i \in 1..Len(s) : FmAt(s, i)})

PtbSearch(s) == Least({i \in 1..Len(s) : PtbAt(s, i)})

\* TAF._parse_group_header: the FM match, replaced by the PROB/TEMPO/BECMG
\* match when there is one; {} when neither pattern matches
_parse_group_header(string) ==
    Only({
      IF ptb > 0
      THEN Only({
             Only({[type |-> SubSeq(string, ptb, e),
                    probability |->
                        IF MatchAt(string, ptb, S_PROB)
                        THEN IF DigitsAt(string, ptb + 4, 2)
                             THEN SubSeq(string, ptb + 4, ptb + 5)
                             ELSE SubSeq(string, ptb + 4, ptb + 4)
                        ELSE NoneStr,
                    from_date |-> SubSeq(string, d, d + 1),
                    from_hours |-> SubSeq(string, d + 2, d + 3),
                    till_date |-> SubSeq(string, d + 5, d + 6),
                    till_hours |-> SubSeq(string, d + 7, d + 8)]
                   : d \in {SkipSpace(string, e + 1)}})
             : e \in {PtbTypeEnd(string, ptb)}})
      ELSE IF fm > 0
      THEN [type |-> S_FM,
            from_date |-> SubSeq(string, fm + 2, fm + 3),
            from_hours |-> SubSeq(string, fm + 4, fm + 5),
            from_minutes |-> SubSeq(string, fm + 6, fm + 7)]
      ELSE EmptyDict
      : fm \in {FmSearch(string)}, ptb \in {PtbSearch(string)}})

\* A raw weather group is modelled by its sub-header text (head) and by the
\* whitespace-delimited tokens of its body, kept by the field whose pattern
\* can match them; <<>> stands for "no such token in the group".

S_KT == <<"K", "T">>
S_MPS == <<"M", "P", "S">>
S_SM == <<"S", "M">>

EndsWith(s, lit) == MatchAt(s, Len(s) - Len(lit) + 1, lit)

\* the position of character c in s, 0 when it is not there
IndexOf(s, c) == Least({i \in 1..Len(s) : s[i] = c})

\* TAF._parse_wind on the token
_parse_wind(tok) ==
    Only({
      Only({
        LET speed == IF g > 0 THEN SubSeq(mid, 1, g - 1) ELSE mid
            gust == IF g > 0 THEN SubSeq(mid, g + 1, Len(mid)) ELSE <<>>
        IN  IF /\ ulen > 0
               /\ (DigitsAt(tok, 1, 3) \/ MatchAt(tok, 1, <<"V", "R", "B">>))
               /\ Len(speed) \in 2..3 /\ IsDigits(speed)
               /\ (g > 0 => (Len(gust) \in 2..3 /\ IsDigits(gust)))
            THEN [direction |-> SubSeq(tok, 1, 3),
                  speed |-> speed,
                  gust |-> IF g > 0 THEN gust ELSE NoneStr,
                  unit |-> SubSeq(tok, Len(tok) - ulen + 1, Len(tok))]
            ELSE None
        : mid \in {IF Len(tok) >= 3 + ulen
                   THEN SubSeq(tok, 4, Len(tok) - ulen) ELSE <<>>},
          g \in {IF Len(tok) >= 3 + ulen
                 THEN IndexOf(SubSeq(tok, 4, Len(tok) - ulen), "G") ELSE 0}})
      : ulen \in {IF EndsWith(tok, S_MPS) THEN 3
                  ELSE IF EndsWith(tok, S_KT) THEN 2 ELSE 0}})

\* the range alternatives of visibility_pattern: \d | \d/\d | \d\s\d/\d
IsSmRange(r) ==
    \/ Len(r) = 1 /\ IsDigits(r)
    \/ Len(r) = 3 /\ r[1] \in DigitChars /\ r[2] = "/" /\ r[3] \in DigitChars
    \/ /\ Len(r) = 5
       /\ r[1] \in DigitChars /\ r[2] = " " /\ r[3] \in DigitChars
       /\ r[4] = "/" /\ r[5] \in DigitChars

\* TAF._parse_visibility on the token: the statute-miles match, overwritten
\* by the 4-digit metric match; 9999 becomes "10 000" with more = True
_parse_visibility(tok) ==
    Only({
      IF Len(tok) = 4 /\ IsDigits(tok)
      THEN IF tok = <<"9", "9", "9", "9">>
           THEN [range |-> <<"1", "0", " ", "0", "0", "0">>,
                 more |-> [bool |-> TRUE],
                 unit |-> <<"M">>]
           ELSE [range |-> tok, unit |-> <<"M">>]
      ELSE IF EndsWith(tok, S_SM) /\ IsSmRange(body)
      THEN [more |-> IF Len(tok) > 0 /\ tok[1] = "P"
                     THEN PyStr(<<"P">>) ELSE None,
            range |-> body,
            unit |-> S_SM]
      ELSE EmptyDict
      : body \in {LET p == IF Len(tok) > 0 /\ tok[1] = "P" THEN 1 ELSE 0
                  IN  IF Len(tok) >= p + 2
                      THEN SubSeq(tok, p + 1, Len(tok) - 2)
                      ELSE <<>>}})

SkyStates ==
    {<<"S", "K", "C">>, <<"C", "L", "R">>, <<"N", "S", "C">>,
     <<"C", "A", "V", "O", "K">>, <<"C", "A", "V", "U">>}

CloudLayers ==
    {<<"B", "K", "N">>, <<"S", "C", "T">>, <<"F", "E", "W">>,
     <<"O", "V", "C">>}

CloudTypes ==
    {<<"C", "U">>, <<"C", "B">>, <<"T", "C", "U">>, <<"C", "I">>}

\* clouds_pattern on one token
IsCloudLayer(tok) ==
    /\ Len(tok) >= 6
    /\ SubSeq(tok, 1, 3) \in CloudLayers
    /\ DigitsAt(tok, 4, 3)
    /\ (Len(tok) > 6 => SubSeq(tok, 7, Len(tok)) \in CloudTypes)

IsLayer(l) == Len(l.layer) > 0

\* every token clouds_pattern matches, in order
CloudLayerList(toks) ==
    SelectSeq([i \in 1..Len(toks) |->
                  IF IsCloudLayer(toks[i])
                  THEN [layer |-> SubSeq(toks[i], 1, 3),
                        ceiling |-> SubSeq(toks[i], 4, 6),
                        type |-> IF Len(toks[i]) > 6
                                 THEN SubSeq(toks[i], 7, Len(toks[i]))
                                 ELSE NoneStr]
                  ELSE [layer |-> <<>>, ceiling |-> <<>>, type |-> NoneStr]],
              IsLayer)

\* TAF._parse_clouds: the first sky-state token alone, else every layer
_parse_clouds(toks) ==
    Only({IF i > 0 THEN <<[layer |-> toks[i]]>> ELSE CloudLayerList(toks)
          : i \in {Least({j \in 1..Len(toks) : toks[j] \in SkyStates})}})

_modifiers ==
    {<<"M", "I">>, <<"B", "C">>, <<"D", "R">>, <<"B", "L">>, <<"S", "H">>,
     <<"T", "S">>, <<"F", "Z">>, <<"P", "R">>}

_phenomena ==
    {<<"D", "Z">>, <<"R", "A">>, <<"S", "N">>, <<"S", "G">>, <<"I", "C">>,
     <<"P", "L">>, <<"G", "R">>, <<"G", "S">>, <<"U", "P">>, <<"B", "R">>,
     <<"F", "G">>, <<"F", "U">>, <<"D", "U">>, <<"S", "A">>, <<"H", "Z">>,
     <<"P", "Y">>, <<"V", "A">>, <<"P", "O">>, <<"S", "Q">>, <<"F", "C">>,
     <<"S", "S">>, <<"D", "S">>}

\* WEATHER_PATTERNS.get(x, None)
WEATHER_PATTERNS(x) ==
    IF x \in _modifiers THEN "modifier"
    ELSE IF x \in _phenomena THEN "phenomenon"
    ELSE "None"

\* the 2-character chunks of the remainder
RECURSIVE wx_parts(_)
wx_parts(remainder) ==
    IF Len(remainder) = 0 THEN {}
    ELSE IF Len(remainder) <= 2 THEN {remainder}
    ELSE {SubSeq(remainder, 1, 2)}
            \cup wx_parts(SubSeq(remainder, 3, Len(remainder)))

IsWord(s) == Len(s) > 0 /\ \A i \in 1..Len(s) : s[i] \notin {"+", "-", " "}

\* TAF._parse_weather_phenomena_str for a word whose remainder is \w+: a
\* dict from the chunks, the intensity prefix and the word to their class
_parse_weather_phenomena_str(weather_str) ==
    Only({
      Only({[x \in wx_parts(remainder) \cup {intensity, weather_str} |->
                IF x = weather_str THEN "weather"
                ELSE IF x = intensity THEN "intensity"
                ELSE WEATHER_PATTERNS(x)]
            : intensity \in {SubSeq(weather_str, 1, n)},
              remainder \in {SubSeq(weather_str, n + 1, Len(weather_str))}})
      : n \in {LET cls == {"+", "|", "-", "V", "C"} IN
               IF /\ Len(weather_str) > 2
                  /\ weather_str[1] \in cls /\ weather_str[2] \in cls
                  /\ IsWord(SubSeq(weather_str, 3, Len(weather_str)))
               THEN 2
               ELSE IF /\ Len(weather_str) > 1
                       /\ weather_str[1] \in cls
                       /\ IsWord(SubSeq(weather_str, 2, Len(weather_str)))
               THEN 1
               ELSE 0}})

\* TAF._parse_weather_phenomena
_parse_weather_phenomena(toks) ==
    [i \in 1..Len(toks) |-> _parse_weather_phenomena_str(toks[i])]

\* TAF._parse_wind_shear on the token: WS \d{3} / \d{3} \d{2} (KT|MPS)
_parse_wind_shear(tok) ==
    IF /\ MatchAt(tok, 1, <<"W", "S">>)
       /\ DigitsAt(tok, 3, 3)
       /\ MatchAt(tok, 6, <<"/">>)
       /\ DigitsAt(tok, 7, 5)
       /\ (MatchAt(tok, 12, S_KT) \/ MatchAt(tok, 12, S_MPS))
    THEN [altitude |-> SubSeq(tok, 3, 5),
          direction |-> SubSeq(tok, 7, 9),
          speed |-> SubSeq(tok, 10, 11),
          unit |-> IF MatchAt(tok, 12, S_KT) THEN S_KT ELSE S_MPS]
    ELSE None

\* TAF._parse_group
_parse_group(raw) ==
    [header |-> _parse_group_header(raw.head),
     wind |-> _parse_wind(raw.wind),
     visibility |-> _parse_visibility(raw.visibility),
     clouds |-> _parse_clouds(raw.clouds),
     weather |-> _parse_weather_phenomena(raw.weather),
     windshear |-> _parse_wind_shear(raw.windshear)]

\* ---------------------------------------------------------------------
\* TafGroup
\* ---------------------------------------------------------------------
ATTRIBUTES == <<"wind", "visibility", "clouds", "weather", "windshear">>

\* TafGroup._decode_range: "a rem", "num/denom" or an integer; an int, or
\* the float (a * denom + num) / denom kept as a fraction
_decode_range(range_str) ==
    Only({
      Only({
        Only({
          IF sl > 0
          THEN LET num == int(SubSeq(rem, 1, sl - 1))
                   denom == int(SubSeq(rem, sl + 1, Len(rem)))
               IN  IF denom = 0 THEN Raised("ZeroDivisionError")
                   ELSE [float |-> <<a * denom + num, denom>>]
          ELSE PyInt(a + int(rem))
          : sl \in {IndexOf(rem, "/")}})
        : a \in {IF sp > 0 THEN int(SubSeq(range_str, 1, sp - 1)) ELSE 0},
          rem \in {IF sp > 0 THEN SubSeq(range_str, sp + 1, Len(range_str))
                   ELSE range_str}})
      : sp \in {IndexOf(range_str, " ")}})

\* TafGroup._decode_visibility
_decode_visibility(group) ==
    LET vis == group.visibility IN
    IF vis = EmptyDict THEN EmptyDict
    ELSE Only({IF IsRaised(range) THEN range
               ELSE IF vis.unit = <<"M">>
                    THEN [visibilityM |-> range]
                    ELSE [visibilitySM |-> range]
               : range \in {_decode_range(vis.range)}})

\* TafGroup._decode_wind: a group without wind, or with direction 000, has
\* the wind {'wind_none': 'TRUE'}
_decode_wind(group) ==
    LET wind == group.wind IN
    IF wind = None \/ wind.direction = <<"0", "0", "0">>
    THEN [wind_none |-> PyStr(<<"T", "R", "U", "E">>)]
    ELSE LET dir == IF wind.direction = <<"V", "R", "B">> THEN PyInt(-1)
                    ELSE PyStr(wind.direction)
             base == [wind_none |-> PyStr(<<"F", "A", "L", "S", "E">>),
                      wind_dir |-> dir]
             speed == IF wind.unit = S_KT
                      THEN [wind_speed_KT |-> PyStr(wind.speed)]
                      ELSE [wind_speed_MPS |-> PyStr(wind.speed)]
             gust == IF wind.gust = NoneStr THEN EmptyDict
                     ELSE IF wind.unit = S_KT
                     THEN [wind_gust_KT |-> PyStr(wind.gust)]
                     ELSE [wind_gust_MPS |-> PyStr(wind.gust)]
         IN  base @@ speed @@ gust

\* TafGroup._decode_clouds: the number of layers and the first layer
_decode_clouds(group) ==
    LET clouds == group.clouds IN
    IF Len(clouds) = 0 THEN EmptyDict
    ELSE LET layer == clouds[1]
             base == [clouds_num_layers |-> PyInt(Len(clouds)),
                      clouds |-> PyStr(layer.layer)]
         IN  IF layer.layer \in SkyStates THEN base
             ELSE base @@
                  [clouds_type |-> IF layer.type = NoneStr THEN None
                                   ELSE PyStr(layer.type),
                   clouds_ceiling_ft |-> PyInt(int(layer.ceiling) * 100)]

\* TafGroup._decode_weather: wx.get('modifier') and wx.get('phenomenon')
\* of the first word, whose keys are its chunks, never these two names
_decode_weather(group) ==
    LET weather == group.weather IN
    IF Len(weather) = 0 THEN EmptyDict
    ELSE [wx_modifier |-> None, wx_phenomenon |-> None]

\* TafGroup._decode_windshear
_decode_windshear(group) ==
    LET windshear == group.windshear IN
    IF windshear = None THEN EmptyDict
    ELSE [windshear_alt_ft |-> PyInt(int(windshear.altitude) * 100),
          windshear_dir |-> PyStr(windshear.direction)]
         @@ (IF windshear.unit = S_KT
             THEN [windshear_speed_KT |-> PyStr(windshear.speed)]
             ELSE [windshear_speed_MPS |-> PyStr(windshear.speed)])

\* The header a TafGroup holds is a reference: 0 is the TAF header, i > 0 is
\* the sub-header of the i-th parsed group.
HeaderOf(taf, ref) == IF ref = 0 THEN taf.header ELSE taf.groups[ref].header

\* the reference a TafGroup built from the i-th parsed group holds: the
\* TAF header when the group has no sub-header
HeaderRef(taf, i) == IF taf.groups[i].header = EmptyDict THEN 0 ELSE i

\* TafGroup.__init__ for the i-th parsed group; _group is the index i
TafGroup(taf, i, issued_timestamp) ==
    Only({[_group |-> i,
           header |-> HeaderRef(taf, i),
           type |-> header.type,
           start_time |-> _decode_timestamp(issued_timestamp, header,
                                            <<"from_", "valid_from_">>),
           end_time |-> _decode_timestamp(issued_timestamp, header,
                                          <<"till_">>),
           wind |-> _decode_wind(group),
           visibility |-> _decode_visibility(group),
           clouds |-> _decode_clouds(group),
           weather |-> _decode_weather(group),
           windshear |-> _decode_windshear(group)]
          : group \in {taf.groups[i]},
            header \in {HeaderOf(taf, HeaderRef(taf, i))}})

\* the exception TafGroup.__init__ ends with, None when it returns
TafGroupRaises(g) ==
    IF IsRaised(g.start_time) THEN g.start_time
    ELSE IF IsRaised(g.end_time) THEN g.end_time
    ELSE IF IsRaised(g.visibility) THEN g.visibility
    ELSE None

\* TafGroup.header_starts_with
header_starts_with(taf, g, keys) ==
    \E key \in keys : StartsWith(HeaderOf(taf, g.header).type, key)

\* TafGroup.fill_in_information: every attribute that is an empty dict is
\* replaced by the other group's
fill_in_information(self, other_group) ==
    [self EXCEPT
        !.wind = IF @ = EmptyDict THEN other_group.wind ELSE @,
        !.visibility = IF @ = EmptyDict THEN other_group.visibility ELSE @,
        !.clouds = IF @ = EmptyDict THEN other_group.clouds ELSE @,
        !.weather = IF @ = EmptyDict THEN other_group.weather ELSE @,
        !.windshear = IF @ = EmptyDict THEN other_group.windshear ELSE @]

\* ---------------------------------------------------------------------
\* Decoder: the timeline
\* ---------------------------------------------------------------------
IsCoverageType(type) == type = S_FM \/ type = S_MAIN

\* Decoder._create_basic_group: a shallow copy of self.groups[0] with new
\* times and the type MAIN-EXT
_create_basic_group(groups, startime, endtime) ==
    [groups[1] EXCEPT !.start_time = startime,
                      !.end_time = endtime,
                      !.type = S_MAIN_EXT]

\* Decoder._decode_groups, lines 118-127: the walk over the pairs of report
\* order from pair i on. raised is None or the exception that ends it.
RECURSIVE PairLoop(_, _, _)
PairLoop(groups, newgroups, i) ==
    IF i > Len(groups) - 1
    THEN [groups |-> groups, newgroups |-> newgroups, raised |-> None]
    ELSE Only({
      IF group.end_time = None /\ ~IsCoverageType(group.type)
      THEN [groups |-> groups, newgroups |-> newgroups,
            raised |-> Raised("NameError")]
      ELSE Only({
        IF ~IsDatetime(end_time) \/ ~IsDatetime(nextgroup.start_time)
        THEN [groups |-> [groups EXCEPT ![i].end_time = end_time],
              newgroups |-> newgroups,
              raised |-> TypeError]
        ELSE Only({
          PairLoop(groups1, newgroups1, i + 1)
          : groups1 \in {[groups EXCEPT ![i].end_time = end_time]},
            newgroups1 \in
              {IF _has_gap(end_time, nextgroup.start_time)
               THEN Append(newgroups,
                           _create_basic_group(
                               [groups EXCEPT ![i].end_time = end_time],
                               end_time, nextgroup.start_time))
               ELSE newgroups}})
        : end_time \in {IF group.end_time = None
                        THEN nextgroup.start_time
                        ELSE group.end_time}})
      : group \in {groups[i]}, nextgroup \in {groups[i + 1]}})

\* sorted(groups, key=attrgetter('start_time')): stable
RECURSIVE InsertSorted(_, _)
InsertSorted(sorted, g) ==
    Only({IF n = 0 THEN <<g>>
          ELSE IF Minutes(sorted[n].start_time) <= Minutes(g.start_time)
          THEN Append(sorted, g)
          ELSE Only({Append(InsertSorted(front, g), sorted[n])
                     : front \in {SubSeq(sorted, 1, n - 1)}})
          : n \in {Len(sorted)}})

RECURSIVE SortedByStart(_)
SortedByStart(groups) ==
    IF Len(groups) = 0 THEN <<>>
    ELSE Only({InsertSorted(front, groups[Len(groups)])
               : front \in {SortedByStart(SubSeq(groups, 1, Len(groups) - 1))}})

\* the comparison of the sort raises TypeError for a start_time of None
SortRaises(groups) ==
    Len(groups) > 1 /\ \E i \in 1..Len(groups) : ~IsDatetime(groups[i].start_time)

\* Decoder._set_final_group_endtime, given valid_till
_set_final_group_endtime(groups, valid_till) ==
    LET n == Len(groups) IN
    IF groups[n].end_time = None
    THEN IF IsCoverageType(groups[n].type)
         THEN [groups |-> [groups EXCEPT ![n].end_time = valid_till],
               warnings |-> {}]
         ELSE [groups |-> groups,
               warnings |-> {"end time should already be listed"}]
    ELSE [groups |-> groups, warnings |-> {}]

\* Decoder._fill_in_gaps, given valid_till: the appended group is not
\* sorted in
_fill_in_gaps(groups, valid_till) ==
    LET n == Len(groups) IN
    IF _has_gap(groups[n].end_time, valid_till)
    THEN Append(groups,
                _create_basic_group(groups, groups[n].end_time, valid_till))
    ELSE groups

\* the previous group of Decoder._complete_group_info for the group at
\* (1-based) position k: self.groups[index - 1] with index = k - 2, which
\* is the last group for k = 2
PrevGroupIndex(groups, k) == IF k = 2 THEN Len(groups) ELSE k - 2

TempKeywords == {S_PROB, S_TEMPO, S_BECMG}

\* Decoder._complete_group_info from position k on
RECURSIVE CompleteFrom(_, _, _)
CompleteFrom(taf, groups, k) ==
    IF k > Len(groups) THEN groups
    ELSE IF ~header_starts_with(taf, groups[k], TempKeywords)
    THEN CompleteFrom(taf, groups, k + 1)
    ELSE Only({CompleteFrom(taf, groups1, k + 1)
               : groups1 \in
                   {[groups EXCEPT ![k] =
                       fill_in_information(
                           groups[k], groups[PrevGroupIndex(groups, k)])]}})

_complete_group_info(taf, groups) == CompleteFrom(taf, groups, 2)

\* the first exception the TafGroup constructors of line 116 end with
RECURSIVE FirstRaise(_, _)
FirstRaise(groups, i) ==
    IF i > Len(groups) THEN None
    ELSE IF TafGroupRaises(groups[i]) # None THEN TafGroupRaises(groups[i])
    ELSE FirstRaise(groups, i + 1)

\* a Decoder whose constructor raised
Failed(exc) ==
    [raised |-> exc, issued_timestamp |-> None, groups |-> <<>>]

\* no snapshot
NoStages ==
    [valid_from |-> None, valid_till |-> None, initial |-> <<>>,
     assigned |-> <<>>, filled |-> <<>>]

\* what _decode_groups gives when it raises exc
Failure(exc) ==
    [decoder |-> Failed(exc), warnings |-> {}, stages |-> NoStages]

\* Decoder.__init__ / Decoder._decode_groups. decoder is the object built
\* (raised: the exception of the constructor, None when it returns),
\* warnings what it printed, stages the timeline after line 116 (initial),
\* after _set_final_group_endtime (assigned) and after _fill_in_gaps
\* (filled), with the resolved validity window.
_decode_groups(taf, taf_timestamp) ==
    Only({
    IF IsRaised(issued) THEN Failure(issued)
    ELSE Only({
    IF FirstRaise(initial, 1) # None THEN Failure(FirstRaise(initial, 1))
    ELSE Only({
    IF loop.raised # None THEN Failure(loop.raised)
    ELSE IF SortRaises(loop.groups \o loop.newgroups) THEN Failure(TypeError)
    ELSE Only({
    IF IsRaised(valid_till) THEN Failure(valid_till)
    ELSE Only({
    IF \/ ~IsDatetime(final.groups[Len(final.groups)].end_time)
       \/ ~IsDatetime(valid_till)
    THEN [decoder |-> Failed(TypeError), warnings |-> final.warnings,
          stages |-> NoStages]
    ELSE Only({
    [decoder |-> [raised |-> None,
                  issued_timestamp |-> issued,
                  groups |-> _complete_group_info(taf, filled)],
     warnings |-> final.warnings,
     stages |-> [valid_from |-> valid_from, valid_till |-> valid_till,
                 initial |-> initial,
                 assigned |-> final.groups, filled |-> filled]]
    : filled \in {_fill_in_gaps(final.groups, valid_till)}})
    : final \in {_set_final_group_endtime(sorted, valid_till)}})
    : sorted \in {SortedByStart(loop.groups \o loop.newgroups)},
      valid_till \in {_decode_timestamp(issued, taf.header,
                                        <<"valid_till_">>)},
      valid_from \in {_decode_timestamp(issued, taf.header,
                                        <<"valid_from_">>)}})
    : loop \in {PairLoop(initial, <<>>, 1)}})
    : initial \in {Tuple([i \in 1..Len(taf.groups) |->
                             TafGroup(taf, i, issued)])}})
    : issued \in {IssuedTimestamp(taf.header, taf_timestamp)}})

\* Decoder.get_group from position i on: the first group with
\* start_time <= timestamp < end_time, None when there is none; comparing
\* a datetime with None raises TypeError
RECURSIVE GetGroupFrom(_, _, _)
GetGroupFrom(groups, timestamp, i) ==
    IF i > Len(groups) THEN None
    ELSE IF ~IsDatetime(groups[i].start_time) THEN TypeError
    ELSE IF Minutes(groups[i].start_time) <= Minutes(timestamp)
    THEN IF ~IsDatetime(groups[i].end_time) THEN TypeError
         ELSE IF Minutes(timestamp) < Minutes(groups[i].end_time)
         THEN groups[i]
         ELSE GetGroupFrom(groups, timestamp, i + 1)
    ELSE GetGroupFrom(groups, timestamp, i + 1)

get_group(groups, timestamp) == GetGroupFrom(groups, timestamp, 1)

\* ---------------------------------------------------------------------
\* Decoder: rendering
\* ---------------------------------------------------------------------
\* Decoder._get_ordinal_suffix: the first of the patterns .*(1[12]|[04-9])$,
\* .*1$, .*2$, .*3$ that matches
_get_ordinal_suffix(date) ==
    LET n == Len(date)
        last == IF n > 0 THEN date[n] ELSE ""
    IN  IF \/ (n >= 2 /\ date[n - 1] = "1" /\ last \in {"1", "2"})
           \/ last \in {"0", "4", "5", "6", "7", "8", "9"}
        THEN <<"t", "h">>
        ELSE IF last = "1" THEN <<"s", "t">>
        ELSE IF last = "2" THEN <<"n", "d">>
        ELSE IF last = "3" THEN <<"r", "d">>
        ELSE <<>>

WithSuffix(date) == date \o _get_ordinal_suffix(date)

\* the header dict after Decoder._decode_header: _header is the dict
\* itself, and the three dates are assigned their suffixed text
HeaderAfterDecode(header) ==
    [header EXCEPT !.origin_date = WithSuffix(@),
                   !.valid_from_date = WithSuffix(@),
                   !.valid_till_date = WithSuffix(@)]

\* the line Decoder._decode_header returns
_decode_header(header) ==
    Only({[template |->
              IF h.type = <<"A", "M", "D">> THEN "TAF amended for "
              ELSE IF h.type = <<"C", "O", "R">> THEN "TAF corrected for "
              ELSE IF h.type = <<"R", "T", "D">> THEN "TAF related for "
              ELSE "TAF for ",
           args |-> h]
          : h \in {HeaderAfterDecode(header)}})

\* the sub-header dict after Decoder._decode_group_header
GroupHeaderAfterDecode(header) ==
    IF "type" \notin DOMAIN header THEN header
    ELSE [k \in DOMAIN header |->
            IF k \in {"from_date", "till_date"} THEN WithSuffix(header[k])
            ELSE header[k]]

\* s contains lit
Contains(s, lit) == \E i \in 1..Len(s) : MatchAt(s, i, lit)

\* the line Decoder._decode_group_header returns
_decode_group_header(header) ==
    Only({[template |->
              IF "type" \notin DOMAIN h THEN ""
              ELSE IF h.type = S_FM THEN "from_str"
              ELSE IF h.probability # NoneStr
                      /\ h.type = S_PROB \o h.probability
                   THEN "prob_str"
              ELSE IF Contains(h.type, S_PROB) /\ Contains(h.type, S_TEMPO)
                   THEN "prob_tempo_str"
              ELSE IF h.type = S_TEMPO THEN "tempo_str"
              ELSE IF h.type = S_BECMG THEN "becmg_str"
              ELSE "",
           args |-> h]
          : h \in {GroupHeaderAfterDecode(header)}})

\* the lines decode_taf adds for one parsed group, the weather line aside
GroupLines(group) ==
    (IF group.header # EmptyDict
     THEN <<_decode_group_header(group.header)>> ELSE <<>>)
    \o (IF group.wind # None
        THEN <<[template |-> "Wind", args |-> EmptyDict]>> ELSE <<>>)
    \o (IF group.visibility # EmptyDict
        THEN <<[template |-> "Visibility", args |-> EmptyDict]>> ELSE <<>>)
    \o (IF Len(group.clouds) > 0
        THEN <<[template |-> "Sky conditions", args |-> EmptyDict]>>
        ELSE <<>>)
    \o (IF group.windshear # None
        THEN <<[template |-> "Windshear", args |-> EmptyDict]>> ELSE <<>>)

\* Decoder._decode_weather reads group["intensity"] of every word, a key
\* the dict of a word does not have
WeatherRaises(group) == Len(group.weather) > 0

\* the position of the first parsed group, from i on, at which decode_taf
\* raises KeyError; 0 when it renders them all
RECURSIVE FirstWeather(_, _)
FirstWeather(groups, i) ==
    IF i > Len(groups) THEN 0
    ELSE IF WeatherRaises(groups[i]) THEN i
    ELSE FirstWeather(groups, i + 1)

RECURSIVE LinesUpTo(_, _)
LinesUpTo(groups, n) ==
    IF n = 0 THEN <<>>
    ELSE LinesUpTo(groups, n - 1) \o GroupLines(groups[n])

\* Decoder.decode_taf: the TAF object it leaves behind (taf) and what it
\* returns (raised is None) or raises
decode_taf(taf) ==
    Only({
      LET upto == IF stop = 0 THEN Len(taf.groups) ELSE stop IN
      [taf |-> [taf EXCEPT
                  !.header = HeaderAfterDecode(@),
                  !.groups = Tuple([i \in 1..Len(@) |->
                      IF i <= upto
                      THEN [@[i] EXCEPT
                              !.header = GroupHeaderAfterDecode(@)]
                      ELSE @[i]])],
       raised |-> IF stop = 0 THEN None ELSE KeyError,
       lines |-> IF stop = 0
                 THEN <<_decode_header(taf.header)>>
                      \o LinesUpTo(taf.groups, upto)
                 ELSE <<>>]
      : stop \in {FirstWeather(taf.groups, 1)}})

\* ---------------------------------------------------------------------
\* Reports
\* ---------------------------------------------------------------------
\* TAF._init_header, lines 99-102: the groups of the match, and the type,
\* which is always set to MAIN
Header(od, oh, om, fd, fh, td, th) ==
    [type |-> S_MAIN,
     icao_code |-> <<"K", "X", "Y", "Z">>,
     origin_date |-> od, origin_hours |-> oh, origin_minutes |-> om,
     valid_from_date |-> fd, valid_from_hours |-> fh,
     valid_till_date |-> td, valid_till_hours |-> th]

\* the headers of the reports explored: a window inside a month, and a
\* window that starts on day 31 and ends on day 1
Headers ==
    {Header(<<"0", "1">>, <<"0", "6">>, <<"0", "0">>,
            <<"0", "1">>, <<"0", "6">>, <<"0", "2">>, <<"0", "6">>),
     Header(<<"3", "1">>, <<"1", "7">>, <<"0", "0">>,
            <<"3", "1">>, <<"1", "8">>, <<"0", "1">>, <<"1", "8">>)}

\* the sub-header texts of the groups explored, on the days of the header:
\* two FM groups and an FM whose minutes are missing
FmHeads(h) ==
    {S_FM \o h.valid_from_date \o <<"1", "2", "0", "0">>,
     S_FM \o h.valid_till_date \o <<"0", "0", "0", "0">>}

BadHeads(h) == {S_FM \o h.valid_from_date \o <<"1", "2">>}

\* a BECMG, a TEMPO that ends at 24 and a PROB30 TEMPO
OverlayHeads(h) ==
    LET d1 == h.valid_from_date
        d2 == h.valid_till_date
    IN  {S_BECMG \o <<" ">> \o d1 \o <<"0", "8", "/">> \o d1 \o <<"1", "0">>,
         S_TEMPO \o <<" ">> \o d1 \o <<"2", "0", "/">> \o d1 \o <<"2", "4">>,
         S_PROB \o <<"3", "0", " ">> \o S_TEMPO \o <<" ">>
              \o d2 \o <<"0", "0", "/">> \o d2 \o <<"0", "4">>}

\* the body tokens of the i-th group of a report
WindTok(i) ==
    CASE i % 4 = 1 -> <<"1", "8", "0", "1", "0", "K", "T">>
      [] i % 4 = 2 -> <<"2", "0", "0", "1", "5", "G", "2", "5", "K", "T">>
      [] i % 4 = 3 -> <<"V", "R", "B", "0", "5", "M", "P", "S">>
      [] OTHER -> <<"0", "0", "0", "0", "0", "K", "T">>

VisTok(i) ==
    CASE i % 4 = 1 -> <<"9", "9", "9", "9">>
      [] i % 4 = 2 -> <<"P", "6", "S", "M">>
      [] i % 4 = 3 -> <<"4", "0", "0", "0">>
      [] OTHER -> <<"1", " ", "1", "/", "2", "S", "M">>

CloudToks(i) ==
    CASE i % 4 = 1 -> <<<<"S", "C", "T", "0", "3", "0">>>>
      [] i % 4 = 2 -> <<<<"B", "K", "N", "0", "2", "0">>,
                        <<"O", "V", "C", "0", "4", "0", "C", "B">>>>
      [] i % 4 = 3 -> <<<<"C", "A", "V", "O", "K">>>>
      [] OTHER -> <<<<"F", "E", "W", "0", "1", "0">>>>

WeatherToks(i) ==
    CASE i % 4 = 1 -> <<<<"-", "R", "A">>>>
      [] i % 4 = 2 -> <<<<"T", "S", "R", "A">>>>
      [] i % 4 = 3 -> <<<<"V", "C", "S", "H">>>>
      [] OTHER -> <<<<"+", "S", "N">>, <<"B", "R">>>>

ShearTok(i) ==
    CASE i % 4 = 1 ->
           <<"W", "S", "0", "2", "0", "/", "1", "8", "0", "4", "0", "K", "T">>
      [] i % 4 = 2 ->
           <<"W", "S", "0", "1", "0", "/", "2", "7", "0", "4", "5", "K", "T">>
      [] i % 4 = 3 ->
           <<"W", "S", "0", "0", "5", "/", "0", "9", "0", "3", "0", "K", "T">>
      [] OTHER ->
           <<"W", "S", "0", "1", "5", "/", "3", "6", "0", "5", "0", "K", "T">>

\* which fields the body of a group gives: all ("full"), none, or wind
\* and visibility only ("partial"). The groups explored after the MAIN
\* chunk, as <<head, body>>:
Chunks(h) ==
    (FmHeads(h) \X {"full", "partial"})
        \cup (OverlayHeads(h) \X {"partial", "none"})
        \cup (BadHeads(h) \X {"full"})

MainBodies == {"full", "partial"}

RawGroup(i, head, body) ==
    [head |-> head,
     wind |-> IF body = "none" THEN <<>> ELSE WindTok(i),
     visibility |-> IF body = "none" THEN <<>> ELSE VisTok(i),
     clouds |-> IF body = "full" THEN CloudToks(i) ELSE <<>>,
     weather |-> IF body = "full" THEN WeatherToks(i) ELSE <<>>,
     windshear |-> IF body = "full" THEN ShearTok(i) ELSE <<>>]

\* the raw groups of the reports with header h: the MAIN chunk, which has
\* no sub-header, and up to MaxGroups - 1 groups after it
RawReports(h) ==
    UNION {
      {[i \in 1..n |->
            IF i = 1 THEN RawGroup(1, <<>>, b)
            ELSE RawGroup(i, c[i][1], c[i][2])] :
         b \in MainBodies, c \in [2..n -> Chunks(h)]} :
      n \in 1..MaxGroups}

\* TAF.__init__: the header and the parsed groups
TAF(h, raws) ==
    [header |-> h,
     groups |-> Tuple([i \in 1..Len(raws) |-> _parse_group(raws[i])])]

\* the month and year of the taf_timestamp argument (datetime.utcnow()
\* when it is not given)
NowMonths == {4, 12}
NowYear == 2023
Timestamps == {[year |-> NowYear, month |-> m] : m \in NowMonths}

\* the times of day of the point queries
QueryClock == {<<13, 0>>, <<23, 59>>}

\* ---------------------------------------------------------------------
\* The state machine: a TAF object, the Decoder last built from it, and the
\* calls made on them
\* ---------------------------------------------------------------------
VARIABLES
    taf,        \* the TAF object: header dict and parsed groups
    decoder,    \* the Decoder last constructed, None before the first
    stages,     \* history: the timeline at the steps of its construction
    warnings,   \* what has been printed or logged as a warning
    last,       \* the last call: its name, argument and what it gave
    renders,    \* the number of decode_taf calls
    probe       \* one timestamp resolution: its inputs and what it gave

vars == <<taf, decoder, stages, warnings, last, renders, probe>>

Call(op, arg, value) == [op |-> op, arg |-> arg, value |-> value]

Init ==
    /\ taf \in UNION {{TAF(h, raws) : raws \in RawReports(h)} : h \in Headers}
    /\ decoder = None
    /\ stages = NoStages
    /\ warnings = {}
    /\ last = Call("TAF", None, None)
    /\ renders = 0
    /\ probe = None

Built == decoder # None /\ decoder.raised = None

\* Decoder._decode_groups, lines 105-106: a taf_timestamp of None is
\* replaced by datetime.utcnow(), the reading of the clock
Now(taf_timestamp, utcnow) ==
    IF taf_timestamp = None THEN utcnow ELSE taf_timestamp

\* Decoder(taf, taf_timestamp), with the clock reading utcnow
NewDecoder(taf_timestamp, utcnow) ==
    \E d \in {_decode_groups(taf, Now(taf_timestamp, utcnow))} :
        /\ decoder' = d.decoder
        /\ stages' = d.stages
        /\ warnings' = warnings \cup d.warnings
        /\ last' = Call("Decoder", taf_timestamp,
                        [raised |-> d.decoder.raised])
        /\ UNCHANGED <<taf, renders, probe>>

\* the timestamps of the point queries: the day the validity window starts
\* at the times of QueryClock, and midnight of the day it ends
QueryTimes ==
    {[stages.valid_from EXCEPT !.hour = c[1], !.minute = c[2]] :
        c \in {x \in QueryClock : IsDatetime(stages.valid_from)}}
    \cup {[dt EXCEPT !.hour = 0, !.minute = 0] :
            dt \in {x \in {stages.valid_till} : IsDatetime(x)}}

\* decoder.get_group(timestamp)
GetGroup(timestamp) ==
    /\ Built
    /\ \E r \in {get_group(decoder.groups, timestamp)} :
          /\ last' = Call("get_group", timestamp, r)
          /\ warnings' = IF r = None THEN warnings \cup {"No group found"}
                         ELSE warnings
    /\ UNCHANGED <<taf, decoder, stages, renders, probe>>

\* decoder.decode_taf()
DecodeTaf ==
    /\ Built
    /\ renders < MaxRenders
    /\ \E r \in {decode_taf(taf)} :
          /\ taf' = r.taf
          /\ last' = Call("decode_taf", None,
                          [raised |-> r.raised, lines |-> r.lines])
    /\ renders' = renders + 1
    /\ UNCHANGED <<decoder, stages, warnings, probe>>

Next ==
    \/ \E taf_timestamp \in Timestamps \cup {None}, utcnow \in Timestamps :
          NewDecoder(taf_timestamp, utcnow)
    \/ \E timestamp \in QueryTimes : GetGroup(timestamp)
    \/ DecodeTaf

Spec == Init /\ [][Next]_vars

\* ---------------------------------------------------------------------
\* Timestamp resolution on its own: _decode_timestamp applied to a day
\* field, relative to the issued timestamp of a Decoder
\* ---------------------------------------------------------------------
DigitChar(n) ==
    CASE n = 0 -> "0" [] n = 1 -> "1" [] n = 2 -> "2" [] n = 3 -> "3"
      [] n = 4 -> "4" [] n = 5 -> "5" [] n = 6 -> "6" [] n = 7 -> "7"
      [] n = 8 -> "8" [] n = 9 -> "9"

\* the two digits of a day or hour field
TwoDigits(n) == <<DigitChar(n \div 10), DigitChar(n % 10)>>

\* the origin days, the months of "now", the day fields and the hour fields
\* explored
ProbeOriginDays == {1, 15, 30, 31}
ProbeMonths == 1..12
ProbeDays == {1, 15, 29, 30, 31}
ProbeHours == {0, 24}

\* the issued timestamps a Decoder can hold
ProbeIssued ==
    {x \in {IssuedTimestamp(Header(TwoDigits(d), <<"0", "6">>, <<"0", "0">>,
                                   TwoDigits(d), <<"0", "6">>,
                                   TwoDigits(d), <<"1", "8">>),
                            [year |-> NowYear, month |-> m]) :
                d \in ProbeOriginDays, m \in ProbeMonths} :
        IsDatetime(x)}

InitTimestamp ==
    /\ taf = TAF(CHOOSE h \in Headers : h.origin_date = <<"0", "1">>,
                 <<RawGroup(1, <<>>, "full")>>)
    /\ decoder = None
    /\ stages = NoStages
    /\ warnings = {}
    /\ last = Call("TAF", None, None)
    /\ renders = 0
    /\ probe \in [issued : ProbeIssued, day : ProbeDays, hour : ProbeHours,
                  resolved : {None}, warnings : {{}}, done : {FALSE}]

\* decoder._decode_timestamp({'till_date': dd, 'till_hours': hh}, 'till_')
ResolveTimestamp ==
    /\ probe # None
    /\ ~probe.done
    /\ \E header \in {[till_date |-> TwoDigits(probe.day),
                       till_hours |-> TwoDigits(probe.hour)]} :
       \E res \in {_extract_time(header, <<"till_">>)} :
       \E month0 \in {IF probe.issued.day > res.day
                      THEN probe.issued.month + 1
                      ELSE probe.issued.month} :
          probe' = [probe EXCEPT
            !.resolved = _decode_timestamp(probe.issued, header, <<"till_">>),
            !.warnings = _normalize_date_warnings(
                            IF month0 > 12 THEN probe.issued.year + 1
                            ELSE probe.issued.year,
                            IF month0 > 12 THEN 1 ELSE month0,
                            res.day),
            !.done = TRUE]
    /\ UNCHANGED <<taf, decoder, stages, warnings, last, renders>>

SpecTimestamp == InitTimestamp /\ [][ResolveTimestamp]_vars

\* ---------------------------------------------------------------------
\* Report texts: TAF.__init__ applied to the text of a report
\* ---------------------------------------------------------------------
MalformedTAF == Raised("MalformedTAF")

\* \s and [A-Z]
Whitespace == {" ", "\t", "\n", "\r", "\f"}
Capitals ==
    {"A", "B", "C", "D", "E", "F", "G", "H", "I", "J", "K", "L", "M",
     "N", "O", "P", "Q", "R", "S", "T", "U", "V", "W", "X", "Y", "Z"}

S_TAF == <<"T", "A", "F">>
\* (COR|AMD|RTD)
HeaderTypes == {<<"C", "O", "R">>, <<"A", "M", "D">>, <<"R", "T", "D">>}

\* str.strip(chars)
strip(s, chars) ==
    Only({IF keep = {} THEN <<>>
          ELSE SubSeq(s, CHOOSE i \in keep : \A j \in keep : i <= j,
                         CHOOSE i \in keep : \A j \in keep : i >= j)
          : keep \in {{i \in 1..Len(s) : s[i] \notin chars}}})

\* the first position >= i that holds no char of chars
RECURSIVE Skip(_, _, _)
Skip(s, i, chars) ==
    IF i <= Len(s) /\ s[i] \in chars THEN Skip(s, i + 1, chars) ELSE i

\* the positions at which (TAF\s?)* can stop when it starts at position i
RECURSIVE TafEnds(_, _)
TafEnds(s, i) ==
    {i} \cup
    (IF MatchAt(s, i, S_TAF)
     THEN TafEnds(s, i + 3)
          \cup (IF i + 3 <= Len(s) /\ s[i + 3] \in Whitespace
                THEN TafEnds(s, i + 4) ELSE {})
     ELSE {})

\* [A-Z]{4} at position i
StationAt(s, i) ==
    /\ i >= 1
    /\ i + 3 <= Len(s)
    /\ \A k \in i..(i + 3) : s[k] \in Capitals

\* \s+ (COR|AMD|RTD)? \s* [A-Z]{4} at position p: the position of the
\* station code, 0 when there is no match. The qualifier is tried first
\* and given up when no station code follows it.
StationAfter(s, p) ==
    IF ~(p <= Len(s) /\ s[p] \in Whitespace) THEN 0
    ELSE Only({
           IF (\E t \in HeaderTypes : MatchAt(s, i, t))
                 /\ StationAt(s, Skip(s, i + 3, Whitespace))
           THEN Skip(s, i + 3, Whitespace)
           ELSE IF StationAt(s, i) THEN i ELSE 0
           : i \in {Skip(s, p, Whitespace)}})

\* the position of the station code in the match of taf_header_pattern,
\* 0 when the pattern does not match: the repetition of the tag is greedy,
\* so the match is the one with the latest stop that lets the rest match
StationOf(s) ==
    Only({IF ends = {} THEN 0
          ELSE StationAfter(s, CHOOSE p \in ends : \A q \in ends : p >= q)
          : ends \in {{p \in TafEnds(s, 1) : StationAfter(s, p) # 0}}})

\* the number of chars \d{0,2} takes at position i
Digits02(s, i) ==
    IF DigitsAt(s, i, 2) THEN 2 ELSE IF DigitsAt(s, i, 1) THEN 1 ELSE 0

\* n groups \d{0,2} in a row from position i: where each starts, and where
\* the last ends
RECURSIVE Cuts(_, _, _)
Cuts(s, i, n) ==
    IF n = 0 THEN <<i>>
    ELSE Only({<<i>> \o Cuts(s, j, n - 1) : j \in {i + Digits02(s, i)}})

\* the text between two cuts
Cut(s, c, k) == SubSeq(s, c[k], c[k + 1] - 1)

\* TAF._init_header: the groups of the match of taf_header_pattern, with
\* the type set to MAIN, or MalformedTAF when the pattern does not match
_init_header(string) ==
    Only({
      IF icao = 0 THEN MalformedTAF
      ELSE Only({
        Only({
          Only({
            [type |-> S_MAIN,
             icao_code |-> SubSeq(string, icao, icao + 3),
             origin_date |-> Cut(string, o, 1),
             origin_hours |-> Cut(string, o, 2),
             origin_minutes |-> Cut(string, o, 3),
             valid_from_date |-> Cut(string, f, 1),
             valid_from_hours |-> Cut(string, f, 2),
             valid_till_date |-> Cut(string, t, 1),
             valid_till_hours |-> Cut(string, t, 2)]
            : t \in {Cuts(string, Skip(string, f[3], {"/"}), 2)}})
          : f \in {Cuts(string,
                        Skip(string,
                             IF MatchAt(string, o[4], <<"Z">>)
                             THEN o[4] + 1 ELSE o[4],
                             Whitespace),
                        2)}})
        : o \in {Cuts(string, Skip(string, icao + 4, Whitespace), 3)}})
      : icao \in {StationOf(string)}})

\* words joined by single spaces
RECURSIVE Join(_)
Join(words) ==
    IF words = <<>> THEN <<>>
    ELSE IF Len(words) = 1 THEN words[1]
    ELSE words[1] \o <<" ">> \o Join(Tail(words))

\* the text of a raw group: its sub-header and its tokens
GroupText(raw) ==
    Join(SelectSeq(<<raw.head, raw.wind, raw.visibility>> \o raw.clouds
                      \o raw.weather \o <<raw.windshear>>,
                   LAMBDA w : w # <<>>))

\* the header texts explored, part by part: the tag, the qualifier, the
\* station code, the origin time and the validity period, each with the
\* space that follows it
Tags == {<<>>, S_TAF \o <<" ">>, S_TAF \o <<" ">> \o S_TAF \o <<" ">>}
Kinds == {<<>>} \cup {t \o <<" ">> : t \in HeaderTypes}
Stations ==
    {<<"K", "X", "Y", "Z", " ">>,
     <<"n", "o", "t", " ", "a", " ", "t", "a", "f", " ">>}
Origins ==
    {<<>>, <<"0", "1", "0", "6", "0", "0", "Z", " ">>,
     <<"0", "1", "0", "6", "Z", " ">>}
Validities == {<<>>, <<"0", "1", "0", "6", "/", "0", "2", "1", "2", " ">>}

\* the groups of the reports explored: the MAIN chunk alone, or the MAIN
\* chunk and one FM group at noon of the first day
ReportGroups ==
    {<<RawGroup(1, <<>>, b)>> : b \in MainBodies}
    \cup {<<RawGroup(1, <<>>, b),
            RawGroup(2, S_FM \o <<"0", "1", "1", "2", "0", "0">>, "partial")>>
          : b \in MainBodies}

Reports ==
    [tag : Tags, kind : Kinds, station : Stations, origin : Origins,
     validity : Validities, raws : ReportGroups]

\* the text of a report
ReportText(r) ==
    r.tag \o r.kind \o r.station \o r.origin \o r.validity
        \o Join(Tuple([i \in 1..Len(r.raws) |-> GroupText(r.raws[i])]))

\* TAF(string), lines 37-56, for a text that splits into the groups raws:
\* the object, or the exception raised
TAFOfText(string, raws) ==
    IF string = <<>> THEN MalformedTAF
    ELSE Only({IF IsRaised(h) THEN h ELSE TAF(h, raws)
               : h \in {_init_header(
                           strip(strip(strip(string, Whitespace), {"="}),
                                 Whitespace))}})

\* the report is given in probe; taf is None until TAF(string) is called
InitReport ==
    /\ probe \in Reports
    /\ taf = None
    /\ decoder = None
    /\ stages = NoStages
    /\ warnings = {}
    /\ last = Call("text", None, None)
    /\ renders = 0

\* TAF(string)
NewTAF ==
    /\ taf = None
    /\ \E string \in {ReportText(probe)} :
       \E t \in {TAFOfText(string, probe.raws)} :
          /\ taf' = t
          /\ last' = Call("TAF", string,
                          [raised |-> IF IsRaised(t) THEN t ELSE None])
    /\ UNCHANGED <<decoder, stages, warnings, renders, probe>>

\* the TAF object exists
Constructed == taf # None /\ ~IsRaised(taf)

NextReport ==
    \/ NewTAF
    \/ \E taf_timestamp \in Timestamps \cup {None}, utcnow \in Timestamps :
          Constructed /\ decoder = None /\ NewDecoder(taf_timestamp, utcnow)
    \/ DecodeTaf

SpecReport == InitReport /\ [][NextReport]_vars

\* ---------------------------------------------------------------------
\* The ordinal suffix on its own: _get_ordinal_suffix applied to a number
\* ---------------------------------------------------------------------
\* str(n) of a natural number
RECURSIVE str(_)
str(n) ==
    IF n < 10 THEN <<DigitChar(n)>>
    ELSE str(n \div 10) \o <<DigitChar(n % 10)>>

InitOrdinal ==
    /\ probe \in [date : 0..MaxDate, suffix : {None}, done : {FALSE}]
    /\ taf = None
    /\ decoder = None
    /\ stages = NoStages
    /\ warnings = {}
    /\ last = Call("date", None, None)
    /\ renders = 0

\* decoder._get_ordinal_suffix(date)
GetOrdinalSuffix ==
    /\ ~probe.done
    /\ probe' = [probe EXCEPT
                   !.suffix = _get_ordinal_suffix(str(probe.date)),
                   !.done = TRUE]
    /\ UNCHANGED <<taf, decoder, stages, warnings, last, renders>>

SpecOrdinal == InitOrdinal /\ [][GetOrdinalSuffix]_vars

\* ---------------------------------------------------------------------
\* Properties
\* ---------------------------------------------------------------------
\* the timeline of the Decoder
Timeline == decoder.groups

AttributeNames == {ATTRIBUTES[i] : i \in DOMAIN ATTRIBUTES}

\* the kinds that cover the validity window, and the overlay kinds
CoverageTypes == {S_MAIN, S_FM, S_MAIN_EXT}
IsOverlay(g) == \E key \in TempKeywords : StartsWith(g.type, key)

\* the field was not given by the parsed group pg
ParsedUnset(pg, attr) ==
    CASE attr = "wind" -> pg.wind = None
      [] attr = "visibility" -> pg.visibility = EmptyDict
      [] attr = "clouds" -> Len(pg.clouds) = 0
      [] attr = "weather" -> Len(pg.weather) = 0
      [] attr = "windshear" -> pg.windshear = None

\* the window of the report is resolved and t lies in it
InWindow(t) ==
    /\ IsDatetime(stages.valid_from) /\ IsDatetime(stages.valid_till)
    /\ Minutes(stages.valid_from) <= Minutes(t)
    /\ Minutes(t) < Minutes(stages.valid_till)

Coverage == {i \in DOMAIN Timeline : Timeline[i].type \in CoverageTypes}

\* C1: in a built timeline the coverage periods (MAIN, FM, gap-fill) are
\* intervals that do not overlap, and from the start of the validity window
\* and from the end of every coverage period inside it, a coverage period
\* that reaches further starts no more than 5 minutes later: no gap longer
\* than 5 minutes is left inside the window.
C1_CoverageExact ==
    (Built /\ IsDatetime(stages.valid_from)) =>
        /\ \A i \in Coverage : IsDatetime(Timeline[i].end_time)
        /\ \A i, j \in Coverage :
              i # j =>
                ~(/\ Minutes(Timeline[i].start_time)
                        < Minutes(Timeline[j].end_time)
                  /\ Minutes(Timeline[j].start_time)
                        < Minutes(Timeline[i].end_time))
        /\ \A p \in {stages.valid_from}
                      \cup {Timeline[i].end_time : i \in Coverage} :
              (InWindow(p) /\ Minutes(p) + 5 < Minutes(stages.valid_till)) =>
                \E j \in Coverage :
                    /\ Minutes(Timeline[j].start_time) <= Minutes(p) + 5
                    /\ Minutes(Timeline[j].end_time) > Minutes(p)

\* C2: after the inheritance pass every field that a TEMPO/BECMG/PROB
\* period at position i > 1 did not get from its own group has the value of
\* that field in the nearest period before it in the timeline that has the
\* field set.
C2_InheritFromNearestPreceding ==
    Built =>
        \A i \in 2..Len(Timeline) :
            IsOverlay(Timeline[i]) =>
                \A attr \in AttributeNames :
                    LET set == {j \in 1..(i - 1) :
                                    Timeline[j][attr] # EmptyDict}
                    IN  (/\ ParsedUnset(taf.groups[Timeline[i]._group], attr)
                         /\ set # {}) =>
                            Timeline[i][attr] =
                                Timeline[CHOOSE j \in set :
                                            \A k \in set : k <= j][attr]

\* C3: a point query for a timestamp inside the validity window of a built
\* timeline returns a period whose [start_time, end_time) holds it.
C3_QueryInsideWindowFinds ==
    (Built /\ last.op = "get_group" /\ InWindow(last.arg)) =>
        /\ "start_time" \in DOMAIN last.value
        /\ Minutes(last.value.start_time) <= Minutes(last.arg)
        /\ Minutes(last.arg) < Minutes(last.value.end_time)

\* C4: the timeline a Decoder exposes is in chronological order of
\* start_time.
C4_TimelineChronological ==
    Built =>
        \A i \in 1..(Len(Timeline) - 1) :
            Minutes(Timeline[i].start_time)
                <= Minutes(Timeline[i + 1].start_time)

\* the position in the report of its last MAIN or FM group
LastCoverageInReport ==
    CHOOSE i \in DOMAIN stages.initial :
        /\ IsCoverageType(stages.initial[i].type)
        /\ \A j \in DOMAIN stages.initial :
              IsCoverageType(stages.initial[j].type) => j <= i

\* C5: after the end times are assigned, a MAIN or FM period that carried
\* none ends where the next group of the report starts, except the last
\* MAIN or FM group of the report, which ends at the resolved valid-till of
\* the header, also when overlay groups follow it.
C5_EndTimeAssignment ==
    Built =>
        \A i \in DOMAIN stages.assigned :
            LET g == stages.assigned[i] IN
            (/\ IsCoverageType(g.type)
             /\ stages.initial[g._group].end_time = None) =>
                IF g._group = LastCoverageInReport
                THEN g.end_time = stages.valid_till
                ELSE g.end_time = stages.initial[g._group + 1].start_time

\* C6: a built timeline has exactly one period of kind MAIN, and it is the
\* first period of the timeline.
C6_ExactlyOneMainFirst ==
    Built =>
        /\ Cardinality({i \in DOMAIN Timeline : Timeline[i].type = S_MAIN}) = 1
        /\ Timeline[1].type = S_MAIN

\* C7: the inheritance pass leaves every field that the group of a
\* TEMPO/BECMG/PROB period gave as it was extracted, and leaves the periods
\* of kind MAIN, FM and gap-fill as they were.
C7_InheritanceKeepsExplicit ==
    Built =>
        \A i \in DOMAIN Timeline :
            /\ IsOverlay(Timeline[i]) =>
                  \A attr \in AttributeNames :
                      ~ParsedUnset(taf.groups[Timeline[i]._group], attr) =>
                          Timeline[i][attr] = stages.filled[i][attr]
            /\ Timeline[i].type \in CoverageTypes =>
                  Timeline[i] = stages.filled[i]

\* C10: no call on the constructed objects changes the parsed header or a
\* sub-header of a group, so that a timeline built after the call equals
\* one built before it.
C10_HeadersNeverMutated ==
    [][/\ taf' = taf
       /\ \A ts \in Timestamps :
             _decode_groups(taf', ts).decoder = _decode_groups(taf, ts).decoder
      ]_vars

\* a timestamp has been resolved
Resolved == probe # None /\ probe.done

\* the month the day field d falls in by the roll-forward rule alone: the
\* month of the origin o, or the month after it when o.day > d
RollMonth(o, d) ==
    IF o.day <= d THEN [year |-> o.year, month |-> o.month]
    ELSE IF o.month = 12 THEN [year |-> o.year + 1, month |-> 1]
    ELSE [year |-> o.year, month |-> o.month + 1]

NotBefore(r, o) == r.year > o.year \/ (r.year = o.year /\ r.month >= o.month)

\* C8 as stated: the resolved month and year are those of the origin when
\* origin day <= d and those of the month after it when origin day > d
\* (January of the next year after December); the month is in 1..12 and
\* not before the origin's month.
C8_RollForwardOnly ==
    (Resolved /\ IsDatetime(probe.resolved)) =>
        /\ probe.resolved.year = RollMonth(probe.issued, probe.day).year
        /\ probe.resolved.month = RollMonth(probe.issued, probe.day).month
        /\ probe.resolved.month \in 1..12
        /\ NotBefore(probe.resolved, probe.issued)

\* C8 amended: whenever a timestamp results, its month and year are those
\* of the origin when origin day <= d and those of the month after it when
\* origin day > d (January of the next year after December), except that a
\* day 31 that falls in a 30-day month gives day 1 of the month after that
\* one; the month is in 1..12 and not before the origin's month.
C8_RollForwardThenNormalize ==
    (Resolved /\ IsDatetime(probe.resolved)) =>
        LET base == RollMonth(probe.issued, probe.day)
            short == probe.day = 31 /\ monthrange(base.year, base.month) = 30
        IN  /\ probe.resolved.year = base.year
            /\ probe.resolved.month =
                   IF short THEN base.month + 1 ELSE base.month
            /\ probe.resolved.day = IF short THEN 1 ELSE probe.day
            /\ probe.resolved.month \in 1..12
            /\ NotBefore(probe.resolved, probe.issued)

\* a day field before the origin's day, resolved from a December origin
C8_DecemberRollsToJanuary ==
    /\ Resolved
    /\ IsDatetime(probe.resolved)
    /\ probe.issued.month = 12
    /\ probe.issued.day > probe.day
    /\ probe.resolved.month = 1
    /\ probe.resolved.year = probe.issued.year + 1

\* C9: a day field 31 resolved against a 30-day month gives day 1 of the
\* month after it and a warning is recorded; no other day is changed, and a
\* day the month does not have (30 or 31 in February) is not normalized.
C9_Day31NormalizedWithWarning ==
    Resolved =>
        LET base == RollMonth(probe.issued, probe.day)
            short == probe.day = 31 /\ monthrange(base.year, base.month) = 30
        IN  /\ short =>
                  /\ IsDatetime(probe.resolved)
                  /\ probe.resolved.day = 1
                  /\ probe.resolved.month = base.month + 1
                  /\ probe.warnings # {}
            /\ (~short /\ IsDatetime(probe.resolved)) =>
                  /\ probe.resolved.day = probe.day
                  /\ probe.resolved.month = base.month
            /\ (~short /\ probe.day > monthrange(base.year, base.month)) =>
                  probe.resolved = ValueError

\* C11: processing is deterministic in the report text: a decoder built
\* with the timestamp argument omitted has the timeline that every
\* reading of the clock gives for the same report, so two runs on the
\* same text agree
C11_DeterministicInReportText ==
    (last.op = "Decoder" /\ last.arg = None) =>
        \A utcnow \in Timestamps :
            decoder = _decode_groups(taf, utcnow).decoder

\* the header text of the report follows the header grammar as far as the
\* station code and the validity period go: a station code of four
\* capitals, and a validity period
HasStation(r) == r.station = <<"K", "X", "Y", "Z", " ">>
HeaderGrammar(r) == HasStation(r) /\ r.validity # <<>>

\* C12: TAF(string) raises MalformedTAF, and gives no object, for every
\* text whose header lacks the station code or the validity period
C12_MalformedHeaderRejected ==
    (last.op = "TAF" /\ ~HeaderGrammar(probe)) => taf = MalformedTAF

\* the report KXYZ 010600Z 0106/0212 without the TAF tag, with a MAIN
\* group and the group FM011200
TaglessReport(r) ==
    /\ r.tag = <<>>
    /\ r.kind = <<>>
    /\ HeaderGrammar(r)
    /\ r.origin = <<"0", "1", "0", "6", "0", "0", "Z", " ">>
    /\ Len(r.raws) = 2

\* day, hour and minute of a time
Clock(dt) == <<dt.day, dt.hour, dt.minute>>

\* C13: the report without the TAF tag is constructed, and its timeline
\* is exactly MAIN [01 06:00, 01 12:00) and FM [01 12:00, 02 12:00), with
\* no gap-fill period
C13_TaglessReportBuilds ==
    TaglessReport(probe) =>
        /\ last.op = "TAF" => Constructed
        /\ last.op = "Decoder" =>
              /\ Built
              /\ Len(Timeline) = 2
              /\ Timeline[1].type = S_MAIN
              /\ Clock(Timeline[1].start_time) = <<1, 6, 0>>
              /\ Clock(Timeline[1].end_time) = <<1, 12, 0>>
              /\ Timeline[2].type = S_FM
              /\ Clock(Timeline[2].start_time) = <<1, 12, 0>>
              /\ Clock(Timeline[2].end_time) = <<2, 12, 0>>

\* C14: construction has three outcomes only: TAF(string) gives the
\* object or raises MalformedTAF, and Decoder(taf) gives the complete
\* timeline or raises TimelineResolutionError, also when the origin time
\* is missing from the header
C14_ThreeOutcomes ==
    /\ last.op = "TAF" => (Constructed \/ taf = MalformedTAF)
    /\ last.op = "Decoder" =>
          \/ Built /\ Timeline # <<>>
          \/ decoder.raised = Raised("TimelineResolutionError")
                /\ Timeline = <<>>

\* C15: the type of the parsed header is the qualifier in front of the
\* station code (AMD, COR or RTD), and MAIN when there is none
C15_KindFromQualifier ==
    (last.op = "TAF" /\ Constructed) =>
        taf.header.type = IF probe.kind = <<>> THEN S_MAIN
                          ELSE SubSeq(probe.kind, 1, 3)

\* C16: the ordinal suffix of n is "th" when n mod 100 is 11, 12 or 13,
\* otherwise "st", "nd" or "rd" when n mod 10 is 1, 2 or 3, and "th" in
\* every other case
C16_OrdinalSuffix ==
    probe.done =>
        probe.suffix =
            IF probe.date % 100 \in {11, 12, 13} THEN <<"t", "h">>
            ELSE IF probe.date % 10 = 1 THEN <<"s", "t">>
            ELSE IF probe.date % 10 = 2 THEN <<"n", "d">>
            ELSE IF probe.date % 10 = 3 THEN <<"r", "d">>
            ELSE <<"t", "h">>

\* the i-th group of the report has the visibility token 9999
Is9999(i) == probe.raws[i].visibility = <<"9", "9", "9", "9">>

\* C17: the visibility token 9999 gives the at-least flag, the unit meter
\* and a range of 10000 m, in the record TAF extracts and in the numeric
\* visibility of the period the Decoder builds from it
C17_Visibility9999 ==
    /\ (last.op = "TAF" /\ Constructed) =>
          \A i \in DOMAIN taf.groups :
             Is9999(i) =>
                /\ taf.groups[i].visibility.more = [bool |-> TRUE]
                /\ taf.groups[i].visibility.unit = <<"M">>
                /\ int(SelectSeq(taf.groups[i].visibility.range,
                                 LAMBDA c : c # " ")) = 10000
    /\ (last.op = "Decoder" /\ Built) =>
          \A k \in DOMAIN Timeline :
             Is9999(Timeline[k]._group) =>
                Timeline[k].visibility = [visibilityM |-> PyInt(10000)]

\* the MAIN and FM periods of the timeline, in its order, and the
\* positions of its gap-fill periods
ReportCoverage == SelectSeq(Timeline, LAMBDA g : IsCoverageType(g.type))
GapFills == {k \in DOMAIN Timeline : Timeline[k].type = S_MAIN_EXT}
Span(g) == <<g.start_time, g.end_time>>

\* the gaps of more than 5 minutes between one MAIN or FM period and the
\* next, and the gap between the last of them and the end of the window
PairGaps ==
    {<<ReportCoverage[i].end_time, ReportCoverage[i + 1].start_time>> :
        i \in {j \in 1..(Len(ReportCoverage) - 1) :
                 /\ IsDatetime(ReportCoverage[j].end_time)
                 /\ _has_gap(ReportCoverage[j].end_time,
                             ReportCoverage[j + 1].start_time)}}
TailGap == <<ReportCoverage[Len(ReportCoverage)].end_time, stages.valid_till>>

\* C18: the timeline has a gap-fill period exactly for each pair of
\* consecutive coverage periods, overlays skipped, that are more than 5
\* minutes apart (and for the tail of the window); it spans
\* [previous end, next start) and has the field values of the MAIN period
C18_GapFillPerCoveragePair ==
    Built =>
        /\ \A p \in PairGaps : \E k \in GapFills : Span(Timeline[k]) = p
        /\ \A k \in GapFills :
              /\ Span(Timeline[k]) \in PairGaps \cup {TailGap}
              /\ \E m \in DOMAIN Timeline :
                    /\ Timeline[m].type = S_MAIN
                    /\ \A attr \in AttributeNames :
                          Timeline[k][attr] = Timeline[m][attr]

\* C19: every period of a built timeline has its start_time and its
\* end_time set, and does not end before it starts, whatever the order of
\* the groups in the report
C19_IntervalsWellFormed ==
    Built =>
        \A k \in DOMAIN Timeline :
            /\ IsDatetime(Timeline[k].start_time)
            /\ IsDatetime(Timeline[k].end_time)
            /\ Minutes(Timeline[k].start_time) <= Minutes(Timeline[k].end_time)

====
